---------------------------- MODULE Spec2Model ----------------------------
(***************************************************************************)
(* Model of the actuarial calculation engine of astha_v2                   *)
(* (app/utils/calculations.py): LiabilityCalculator.calculate_total_-      *)
(* liability, LiabilityCalculator.sensitivity_analysis,                    *)
(* StressTestEngine.run_stress_scenarios and StressTestEngine.monte_-      *)
(* carlo_simulation, and of the liability history kept by DatabaseManager  *)
(* (models/database.py).                                                   *)
(*                                                                         *)
(* Python floats are modelled as exact rationals [n |-> numerator,         *)
(* d |-> denominator] in lowest terms with d > 0.  Rates are percentages,  *)
(* as in the source (3.5 means 3.5 %); the model draws them from small     *)
(* integer percentages so that every intermediate value fits TLC's         *)
(* integers.  A Python exception ends a call with outcome "raised" and the *)
(* exception's name in the call's error variable.                          *)
(***************************************************************************)
EXTENDS Integers, Sequences, FiniteSets, TLC

VARIABLES
    params,            \* keyword arguments of the running calculate_total_liability call
    calc_pc,           \* "call" | "loop" | "returned" | "raised"
    calc_error,        \* "none" or the name of the exception raised
    t,                 \* loop variable of calculate_total_liability
    total_liability,   \* local of calculate_total_liability
    jemaah_per_tahun,  \* local of calculate_total_liability
    projections,       \* local of calculate_total_liability
    base_params,       \* argument of sensitivity_analysis (the caller's dict)
    sensitivity_params,\* argument of sensitivity_analysis: sequence of [name, values]
    sens_pc,           \* "idle" | "call" | "loop" | "returned" | "raised"
    sens_error,        \* "none" or the name of the exception raised
    sens_i,            \* position of the outer loop in sensitivity_params.items()
    sens_j,            \* position of the inner loop in param_values
    results,           \* local of sensitivity_analysis
    base_assets,       \* argument of run_stress_scenarios
    base_liability,    \* argument of run_stress_scenarios
    stress_pc,         \* "idle" | "call" | "loop" | "returned" | "raised"
    stress_error,      \* "none" or the name of the exception raised
    stress_i,          \* position of the loop in scenarios.items()
    stress_results,    \* local "results" of run_stress_scenarios
    rng_state,         \* state of the process-wide generator np.random
    mc_pc,             \* per caller of monte_carlo_simulation: "off" | "idle" |
                       \* "seed" | "draw_liability" | "draw_assets" | "compute" | "returned"
    mc_args,           \* per caller: [base_assets, base_liability, n_simulations]
    liability_factors, \* per caller: local of monte_carlo_simulation
    asset_factors,     \* per caller: local of monte_carlo_simulation
    mc_results,        \* per caller: the dictionary "results" the call returned
    mc_prev,           \* per caller: arguments and results of its previous call
    db_pc,             \* "off" | "none" (no DatabaseManager yet) | "ready"
    db_tables,         \* names of the tables in the file at db_path
    liability_calculations, \* rows of the table, in rowid order
    clock,             \* reading of the wall clock, datetime.now()
    db_ret,            \* outcome of the last DatabaseManager call
    build,             \* "eager" | "lazy": when the interpreter evaluates annotations
    ag_pc,             \* per agent: "off" | "unloaded" | "import_failed" | "ready" | "running"
    ag_status,         \* per agent: self.status
    ag_history,        \* per agent: the 'success' flags of self.execution_history
    ag_calls,          \* per agent: number of execute calls made so far
    ag_last,           \* per agent: how its last finished execute call ended
    orch_pc,           \* run_daily_analysis: "off" | "unloaded" | "import_failed" |
                       \* "idle" | "running" | "returned"
    orch_step,         \* the step of the workflow run_daily_analysis is at
    orch_results,      \* local "results" of run_daily_analysis: [key, status] in insertion order
    orch_executed,     \* the agents whose execute the running call has called, in order
    orch_history,      \* AgentOrchestrator.execution_history: [agent, success]
    orch_ret           \* what the last run_daily_analysis call returned

calc_vars == <<params, calc_pc, calc_error, t, total_liability, jemaah_per_tahun, projections>>

sens_vars == <<base_params, sensitivity_params, sens_pc, sens_error, sens_i, sens_j, results>>

stress_vars == <<base_assets, base_liability, stress_pc, stress_error, stress_i, stress_results>>

mc_vars == <<rng_state, mc_pc, mc_args, liability_factors, asset_factors, mc_results, mc_prev>>

db_vars == <<db_pc, db_tables, liability_calculations, clock, db_ret>>

ag_vars == <<build, ag_pc, ag_status, ag_history, ag_calls, ag_last,
             orch_pc, orch_step, orch_results, orch_executed, orch_history, orch_ret>>

vars == <<calc_vars, sens_vars, stress_vars, mc_vars, db_vars, ag_vars>>

---------------------------------------------------------------------------
(* Exact rational arithmetic standing for Python float arithmetic.         *)

Abs(x) == IF x < 0 THEN -x ELSE x

RECURSIVE GCD(_, _)
GCD(a, b) == IF b = 0 THEN a ELSE GCD(b, a % b)

Sgn(x) == IF x < 0 THEN -1 ELSE IF x > 0 THEN 1 ELSE 0

\* the rational n/d in lowest terms with a positive denominator; a zero
\* denominator gives the values a float division that does not raise would
\* give: 1/0 for inf, -1/0 for -inf, 0/0 for nan
Rat(n, d) ==
    IF d = 0
    THEN [n |-> Sgn(n), d |-> 0]
    ELSE LET g == GCD(Abs(n), Abs(d))
             s == IF d < 0 THEN -1 ELSE 1
         IN  [n |-> (s * n) \div g, d |-> (s * d) \div g]

IsFinite(x) == x.d # 0

RInt(i) == [n |-> i, d |-> 1]

RZero == RInt(0)

ROne == RInt(1)

RAdd(x, y) == Rat(x.n * y.d + y.n * x.d, x.d * y.d)

RSub(x, y) == Rat(x.n * y.d - y.n * x.d, x.d * y.d)

RMul(x, y) == Rat(x.n * y.n, x.d * y.d)

\* x / y for y # 0; Python raises ZeroDivisionError when y = 0, which the
\* callers test with RIsZero before dividing
RDiv(x, y) == Rat(x.n * y.d, x.d * y.n)

RIsZero(x) == x.n = 0

RLess(x, y) == x.n * y.d < y.n * x.d

RLeq(x, y) == x.n * y.d <= y.n * x.d

\* x ** k for an integer k >= 0
RECURSIVE RPow(_, _)
RPow(x, k) == IF k = 0 THEN ROne ELSE RMul(x, RPow(x, k - 1))

\* 1 + rate/100
OnePlusPct(rate) == RAdd(ROne, Rat(rate, 100))

---------------------------------------------------------------------------
(* Bounds and input domains.                                               *)

MaxYears == 3

JemaahValues == {0, 2, 3}

InflasiValues == {0, 50, 100}

KursValues == {15500, 17000}

BiayaValues == {0, 1, 3}

DiskontoValues == {-100, 0, 25, 50, 100}

TahunValues == (-1) .. MaxYears

DepresiasiValues == {0, 50}

ParamSpace ==
    [total_jemaah : JemaahValues,
     inflasi_saudi : InflasiValues,
     kurs_usd : KursValues,
     biaya_awal : BiayaValues,
     tingkat_diskonto : DiskontoValues,
     tahun_proyeksi : TahunValues,
     depresiasi_rupiah : DepresiasiValues]

\* the parameter sets the data model of the specification calls valid
ValidParams(p) ==
    /\ p.total_jemaah > 0
    /\ p.inflasi_saudi >= 0
    /\ p.kurs_usd > 0
    /\ p.biaya_awal > 0
    /\ p.tingkat_diskonto > 0
    /\ p.tahun_proyeksi >= 1
    /\ p.depresiasi_rupiah >= 0

---------------------------------------------------------------------------
(* LiabilityCalculator.calculate_total_liability                           *)

\* mutant: the Saudi inflation factor is left out of the cost
biaya_tahun_t_NoInflation(p, k) ==
    RMul(RInt(p.biaya_awal), RPow(OnePlusPct(p.depresiasi_rupiah), k))

\* mutant: the cost is scaled by the exchange rate relative to 15500
biaya_tahun_t_Kurs(p, k) ==
    RMul(RMul(RMul(RInt(p.biaya_awal), RPow(OnePlusPct(p.inflasi_saudi), k)),
              RPow(OnePlusPct(p.depresiasi_rupiah), k)),
         Rat(p.kurs_usd, 15500))

\* mutant: the rates are compounded without the "1 +"
biaya_tahun_t_NoOnePlus(p, k) ==
    RMul(RMul(RInt(p.biaya_awal), RPow(Rat(p.inflasi_saudi, 100), k)),
         RPow(Rat(p.depresiasi_rupiah, 100), k))

\* C_t = C_0 * (1 + inflasi_saudi/100)**t * (1 + depresiasi_rupiah/100)**t
biaya_tahun_t(p, k) ==
    RMul(RMul(RInt(p.biaya_awal), RPow(OnePlusPct(p.inflasi_saudi), k)),
         RPow(OnePlusPct(p.depresiasi_rupiah), k))

\* (1 + tingkat_diskonto/100)**t, the divisor of the present value
discount_factor(p, k) == RPow(OnePlusPct(p.tingkat_diskonto), k)

\* mutant: the nominal cost is compounded by the discount factor instead of
\* being discounted by it
present_value_Compounded(p, jpt, k) ==
    RMul(RMul(biaya_tahun_t(p, k), jpt), discount_factor(p, k))

\* (biaya_tahun_t * jemaah_per_tahun) / (1 + tingkat_diskonto/100)**t
present_value(p, jpt, k) ==
    RDiv(RMul(biaya_tahun_t(p, k), jpt), discount_factor(p, k))

\* mutant: total_liability = present_value
Accumulate_Overwrite(total, pv) == pv

\* total_liability += present_value
Accumulate(total, pv) == RAdd(total, pv)

\* mutant: the first projected year is the base year itself
ProjectionEntry_YearFromBase(p, jpt, k) ==
    [tahun |-> 2025 + k - 1,
     biaya_per_jemaah |-> biaya_tahun_t(p, k),
     jemaah |-> jpt,
     total_biaya |-> RMul(biaya_tahun_t(p, k), jpt),
     present_value |-> present_value(p, jpt, k)]

\* mutant: total_biaya is the cost of one pilgrim
ProjectionEntry_CostOfOne(p, jpt, k) ==
    [tahun |-> 2025 + k,
     biaya_per_jemaah |-> biaya_tahun_t(p, k),
     jemaah |-> jpt,
     total_biaya |-> biaya_tahun_t(p, k),
     present_value |-> present_value(p, jpt, k)]

\* the dictionary appended to projections in year t
ProjectionEntry(p, jpt, k) ==
    [tahun |-> 2025 + k,
     biaya_per_jemaah |-> biaya_tahun_t(p, k),
     jemaah |-> jpt,
     total_biaya |-> RMul(biaya_tahun_t(p, k), jpt),
     present_value |-> present_value(p, jpt, k)]

\* mutant: range(1, tahun_proyeksi)
LoopExhausted_RangeToN(p, k) == k >= p.tahun_proyeksi

\* range(1, tahun_proyeksi + 1) is exhausted when the loop variable is k
LoopExhausted(p, k) == k > p.tahun_proyeksi

\* lines 23-25: total_jemaah / tahun_proyeksi raises for tahun_proyeksi = 0
CalcEnter ==
    /\ calc_pc = "call"
    /\ IF params.tahun_proyeksi = 0
       THEN /\ calc_pc' = "raised"
            /\ calc_error' = "ZeroDivisionError"
            /\ UNCHANGED <<t, total_liability, jemaah_per_tahun, projections>>
       ELSE /\ calc_pc' = "loop"
            /\ total_liability' = RZero
            /\ jemaah_per_tahun' = Rat(params.total_jemaah, params.tahun_proyeksi)
            /\ projections' = <<>>
            /\ t' = 1
            /\ UNCHANGED calc_error
    /\ UNCHANGED <<params, sens_vars, stress_vars, mc_vars, db_vars, ag_vars>>

\* lines 27-45: one iteration of the for loop
CalcLoopIter ==
    /\ calc_pc = "loop"
    /\ ~LoopExhausted(params, t)
    /\ IF RIsZero(discount_factor(params, t))
       THEN /\ calc_pc' = "raised"
            /\ calc_error' = "ZeroDivisionError"
            /\ UNCHANGED <<t, total_liability, projections>>
       ELSE /\ total_liability' =
                   Accumulate(total_liability, present_value(params, jemaah_per_tahun, t))
            /\ projections' = Append(projections, ProjectionEntry(params, jemaah_per_tahun, t))
            /\ t' = t + 1
            /\ UNCHANGED <<calc_pc, calc_error>>
    /\ UNCHANGED <<params, jemaah_per_tahun, sens_vars, stress_vars, mc_vars, db_vars, ag_vars>>

\* line 47: return total_liability, projections
CalcReturn ==
    /\ calc_pc = "loop"
    /\ LoopExhausted(params, t)
    /\ calc_pc' = "returned"
    /\ UNCHANGED <<params, calc_error, t, total_liability, jemaah_per_tahun, projections>>
    /\ UNCHANGED <<sens_vars, stress_vars, mc_vars, db_vars, ag_vars>>

\* the locals of a call that has not started
CalcLocalsUnset ==
    /\ calc_error = "none"
    /\ t = 0
    /\ total_liability = RZero
    /\ jemaah_per_tahun = RZero
    /\ projections = <<>>

SensIdle ==
    /\ base_params = <<>>
    /\ sensitivity_params = <<>>
    /\ sens_pc = "idle"
    /\ sens_error = "none"
    /\ sens_i = 0
    /\ sens_j = 0
    /\ results = <<>>

StressIdle ==
    /\ base_assets = 0
    /\ base_liability = 0
    /\ stress_pc = "idle"
    /\ stress_error = "none"
    /\ stress_i = 0
    /\ stress_results = <<>>

\* the threads of the process that may call monte_carlo_simulation
Callers == {"A", "B"}

McIdle ==
    /\ rng_state = 0
    /\ mc_pc = [c \in Callers |-> "off"]
    /\ mc_args = [c \in Callers |-> <<>>]
    /\ liability_factors = [c \in Callers |-> <<>>]
    /\ asset_factors = [c \in Callers |-> <<>>]
    /\ mc_results = [c \in Callers |-> <<>>]
    /\ mc_prev = [c \in Callers |-> <<>>]

DbIdle ==
    /\ db_pc = "off"
    /\ db_tables = {}
    /\ liability_calculations = <<>>
    /\ clock = 0
    /\ db_ret = [op |-> "none"]

\* the agents of app/agents, by their name attribute
AgentNames == {"data_collector", "liability_analyst", "investment_simulation"}

AgIdle ==
    /\ build = "lazy"
    /\ ag_pc = [a \in AgentNames |-> "off"]
    /\ ag_status = [a \in AgentNames |-> "none"]
    /\ ag_history = [a \in AgentNames |-> <<>>]
    /\ ag_calls = [a \in AgentNames |-> 0]
    /\ ag_last = [a \in AgentNames |-> [outcome |-> "none"]]
    /\ orch_pc = "off"
    /\ orch_step = 0
    /\ orch_results = <<>>
    /\ orch_executed = <<>>
    /\ orch_history = <<>>
    /\ orch_ret = [status |-> "none"]

CalcIdle ==
    /\ params = <<>>
    /\ calc_pc = "idle"
    /\ CalcLocalsUnset

CalcInit ==
    /\ params \in ParamSpace
    /\ calc_pc = "call"
    /\ CalcLocalsUnset
    /\ SensIdle
    /\ StressIdle
    /\ McIdle
    /\ DbIdle
    /\ AgIdle

CalcNext == CalcEnter \/ CalcLoopIter \/ CalcReturn

SpecCalc == CalcInit /\ [][CalcNext]_vars

---------------------------------------------------------------------------
(* calculate_total_liability as a function of its arguments: what a caller *)
(* (sensitivity_analysis) gets back.  The loop is the one of CalcLoopIter. *)

Raised(e) == [outcome |-> "raised", error |-> e]

RECURSIVE CalcLoop(_, _, _, _, _)
CalcLoop(p, jpt, k, total, projs) ==
    IF LoopExhausted(p, k)
    THEN [outcome |-> "returned", total_liability |-> total, projections |-> projs]
    ELSE IF RIsZero(discount_factor(p, k))
         THEN Raised("ZeroDivisionError")
         ELSE CalcLoop(p, jpt, k + 1,
                       Accumulate(total, present_value(p, jpt, k)),
                       Append(projs, ProjectionEntry(p, jpt, k)))

calculate_total_liability(p) ==
    IF p.tahun_proyeksi = 0
    THEN Raised("ZeroDivisionError")
    ELSE CalcLoop(p, Rat(p.total_jemaah, p.tahun_proyeksi), 1, RZero, <<>>)

\* the step-by-step call and the function agree on every finished call
CalcStepsAgree ==
    /\ calc_pc = "returned" =>
          calculate_total_liability(params) =
             [outcome |-> "returned", total_liability |-> total_liability,
              projections |-> projections]
    /\ calc_pc = "raised" => calculate_total_liability(params) = Raised(calc_error)

---------------------------------------------------------------------------
(* Claims about calculate_total_liability, checked under SpecCalc.         *)

\* C1: for every valid parameter set the call returns, and a call with
\* tahun_proyeksi = N >= 1 that returns gives exactly N projections.
C1_ProjectionLength ==
    /\ ValidParams(params) => calc_pc # "raised"
    /\ (calc_pc = "returned" /\ params.tahun_proyeksi >= 1) =>
          Len(projections) = params.tahun_proyeksi

C1_Witness ==
    /\ calc_pc = "returned"
    /\ ValidParams(params)
    /\ params.tahun_proyeksi >= 2
    /\ Len(projections) = params.tahun_proyeksi

\* sum(p['present_value'] for p in projs), added left to right from 0
RECURSIVE SumPresentValue(_)
SumPresentValue(projs) ==
    IF projs = <<>> THEN RZero
    ELSE RAdd(SumPresentValue(SubSeq(projs, 1, Len(projs) - 1)),
              projs[Len(projs)].present_value)

\* C2: at every loop step and at the return, total_liability is the sum of
\* the present_value fields of the projections recorded so far.
C2_SumInvariant ==
    calc_pc \in {"loop", "returned"} =>
       /\ total_liability = SumPresentValue(projections)
       /\ Len(projections) = t - 1

C2_Witness ==
    /\ calc_pc = "returned"
    /\ Len(projections) >= 2
    /\ \A i \in 1 .. Len(projections) : ~RIsZero(projections[i].present_value)
    /\ total_liability = SumPresentValue(projections)

\* C3: of two valid parameter sets that differ only in inflasi_saudi, the
\* one with the higher rate has the strictly greater total_liability.
C3_InflationMonotone ==
    (calc_pc = "returned" /\ ValidParams(params)) =>
       \A hi \in InflasiValues :
          hi > params.inflasi_saudi =>
             LET r == calculate_total_liability([params EXCEPT !.inflasi_saudi = hi])
             IN  /\ r.outcome = "returned"
                 /\ RLess(total_liability, r.total_liability)

C3_Witness ==
    /\ calc_pc = "returned"
    /\ ValidParams(params)
    /\ \E hi \in InflasiValues :
          /\ hi > params.inflasi_saudi
          /\ RLess(total_liability,
                   calculate_total_liability([params EXCEPT !.inflasi_saudi = hi]).total_liability)

\* C4: of two valid parameter sets that differ only in tingkat_diskonto, the
\* one with the higher rate has the strictly smaller total_liability.
C4_DiscountMonotone ==
    (calc_pc = "returned" /\ ValidParams(params)) =>
       \A hi \in DiskontoValues :
          hi > params.tingkat_diskonto =>
             LET r == calculate_total_liability([params EXCEPT !.tingkat_diskonto = hi])
             IN  /\ r.outcome = "returned"
                 /\ RLess(r.total_liability, total_liability)

C4_Witness ==
    /\ calc_pc = "returned"
    /\ ValidParams(params)
    /\ \E hi \in DiskontoValues :
          /\ hi > params.tingkat_diskonto
          /\ RLess(calculate_total_liability([params EXCEPT !.tingkat_diskonto = hi]).total_liability,
                   total_liability)

\* C5: a call with tahun_proyeksi <= 0 signals an error and returns no
\* (total_liability, projections) result.
C5_NonPositiveYearsRejected ==
    params.tahun_proyeksi <= 0 => calc_pc # "returned"

\* C6: a call with total_jemaah <= 0, biaya_awal <= 0 or tingkat_diskonto <= 0
\* fails before any projection is computed and never returns a liability
\* (stated for tahun_proyeksi >= 1, the calls C5 does not already cover).
C6_NonPositiveInputsRejected ==
    (/\ params.tahun_proyeksi >= 1
     /\ \/ params.total_jemaah <= 0
        \/ params.biaya_awal <= 0
        \/ params.tingkat_diskonto <= 0) =>
       /\ calc_pc # "returned"
       /\ projections = <<>>

---------------------------------------------------------------------------
(* LiabilityCalculator.sensitivity_analysis                                *)

MaxSweepValues == 2

\* the orders of keys of the sensitivity_params dictionaries that are drawn
SweepKeyOrders ==
    {<<>>,
     <<"kurs_usd">>,
     <<"inflasi_saudi", "kurs_usd">>,
     <<"tingkat_diskonto", "inflasi_saudi">>,
     <<"tahun_proyeksi", "kurs_usd">>,
     <<"kurs_usd", "tingkat_diskonto">>}

\* the candidate values of each swept parameter
SweepCandidates(name) ==
    CASE name = "inflasi_saudi" -> {50, 100}
      [] name = "kurs_usd" -> KursValues
      [] name = "tingkat_diskonto" -> {-100, 100}
      [] name = "tahun_proyeksi" -> {0, MaxYears}

ValueLists(name) ==
    UNION {[1 .. n -> SweepCandidates(name)] : n \in 0 .. MaxSweepValues}

\* the dictionaries with the keys `keys`, each as the sequence of its items
\* in insertion order
RECURSIVE SweepsFor(_)
SweepsFor(keys) ==
    IF keys = <<>>
    THEN {<<>>}
    ELSE {<<[name |-> Head(keys), values |-> v]>> \o rest :
             v \in ValueLists(Head(keys)), rest \in SweepsFor(Tail(keys))}

SweepSpace == UNION {SweepsFor(keys) : keys \in SweepKeyOrders}

SensBaseSpace ==
    [total_jemaah : {0, 2, 3},
     inflasi_saudi : {0, 50},
     kurs_usd : {15500},
     biaya_awal : {3},
     tingkat_diskonto : {-100, 50},
     tahun_proyeksi : {0, 2},
     depresiasi_rupiah : {0}]

\* mutant: the copy also carries an inflation override of an earlier pair
Override_KeepInflation(base, name, value) ==
    [base EXCEPT ![name] = value, !["inflasi_saudi"] = 100]

\* params = base_params.copy(); params[param_name] = value
Override(base, name, value) == [base EXCEPT ![name] = value]

\* mutant: params = base_params, the caller's dictionary itself is written
CallerBaseAfter_NoCopy(base, name, value) == [base EXCEPT ![name] = value]

\* the caller's base_params after params = base_params.copy();
\* params[param_name] = value: the copy is written, not the original
CallerBaseAfter(base, name, value) == base

\* ((liability - base_liability) / base_liability) * 100
change_pct(liability, baseline) ==
    RMul(RDiv(RSub(liability, baseline), baseline), RInt(100))

\* mutant: results = [{...}], the list is replaced instead of appended to
AppendResult_Overwrite(res, name, value, liability, baseline) ==
    <<[parameter |-> name,
       value |-> value,
       liability |-> liability,
       change_percent |-> change_pct(liability, baseline)]>>

\* results after results.append({...}) of one (param_name, value) pair
AppendResult(res, name, value, liability, baseline) ==
    Append(res, [parameter |-> name,
                 value |-> value,
                 liability |-> liability,
                 change_percent |-> change_pct(liability, baseline)])

\* the liability every change_percent of a call is measured against
Baseline(base) == calculate_total_liability(base)

\* (liability - base_liability) / base_liability raises ZeroDivisionError
PercentChangeRaises(baseline) == RIsZero(baseline)

\* line 55: results = []
SensEnter ==
    /\ sens_pc = "call"
    /\ sens_pc' = "loop"
    /\ results' = <<>>
    /\ sens_i' = 1
    /\ sens_j' = 1
    /\ UNCHANGED <<base_params, sensitivity_params, sens_error, calc_vars, stress_vars, mc_vars, db_vars, ag_vars>>

\* lines 58-72: the body of the inner loop for one value
SensIter ==
    /\ sens_pc = "loop"
    /\ sens_i <= Len(sensitivity_params)
    /\ sens_j <= Len(sensitivity_params[sens_i].values)
    /\ LET param_name == sensitivity_params[sens_i].name
           value == sensitivity_params[sens_i].values[sens_j]
           r == calculate_total_liability(Override(base_params, param_name, value))
           b == Baseline(base_params)
       IN  IF r.outcome = "raised"
           THEN /\ sens_pc' = "raised"
                /\ sens_error' = r.error
                /\ UNCHANGED <<results, sens_j>>
           ELSE IF b.outcome = "raised"
           THEN /\ sens_pc' = "raised"
                /\ sens_error' = b.error
                /\ UNCHANGED <<results, sens_j>>
           ELSE IF PercentChangeRaises(b.total_liability)
           THEN /\ sens_pc' = "raised"
                /\ sens_error' = "ZeroDivisionError"
                /\ UNCHANGED <<results, sens_j>>
           ELSE /\ results' = AppendResult(results, param_name, value,
                                           r.total_liability, b.total_liability)
                /\ sens_j' = sens_j + 1
                /\ UNCHANGED <<sens_pc, sens_error>>
    /\ base_params' = CallerBaseAfter(base_params, sensitivity_params[sens_i].name,
                                      sensitivity_params[sens_i].values[sens_j])
    /\ UNCHANGED <<sensitivity_params, sens_i, calc_vars, stress_vars, mc_vars, db_vars, ag_vars>>

\* line 57: the inner loop is exhausted, the outer loop takes the next item
SensNextParam ==
    /\ sens_pc = "loop"
    /\ sens_i <= Len(sensitivity_params)
    /\ sens_j > Len(sensitivity_params[sens_i].values)
    /\ sens_i' = sens_i + 1
    /\ sens_j' = 1
    /\ UNCHANGED <<base_params, sensitivity_params, sens_pc, sens_error, results>>
    /\ UNCHANGED <<calc_vars, stress_vars, mc_vars, db_vars, ag_vars>>

\* line 74: return results
SensReturn ==
    /\ sens_pc = "loop"
    /\ sens_i > Len(sensitivity_params)
    /\ sens_pc' = "returned"
    /\ UNCHANGED <<base_params, sensitivity_params, sens_error, sens_i, sens_j, results>>
    /\ UNCHANGED <<calc_vars, stress_vars, mc_vars, db_vars, ag_vars>>

SensInit ==
    /\ base_params \in SensBaseSpace
    /\ sensitivity_params \in SweepSpace
    /\ sens_pc = "call"
    /\ sens_error = "none"
    /\ sens_i = 0
    /\ sens_j = 0
    /\ results = <<>>
    /\ CalcIdle
    /\ StressIdle
    /\ McIdle
    /\ DbIdle
    /\ AgIdle

SensNext == SensEnter \/ SensIter \/ SensNextParam \/ SensReturn

SpecSens == SensInit /\ [][SensNext]_vars

---------------------------------------------------------------------------
(* Claims about sensitivity_analysis, checked under SpecSens.              *)

\* the number of (parameter, value) pairs of a sweep
RECURSIVE SweepCount(_)
SweepCount(sweep) ==
    IF sweep = <<>> THEN 0 ELSE Len(Head(sweep).values) + SweepCount(Tail(sweep))

\* C7: calculate_total_liability gives the same outcome, total_liability and
\* projections whatever kurs_usd is, and every sensitivity result for the
\* parameter kurs_usd has the baseline's liability and change_percent 0.
C7_KursIndependent ==
    sens_pc # "idle" =>
       /\ \A k \in KursValues :
             calculate_total_liability(Override(base_params, "kurs_usd", k)) =
                calculate_total_liability(base_params)
       /\ \A i \in 1 .. Len(results) :
             results[i].parameter = "kurs_usd" =>
                /\ results[i].change_percent = RZero
                /\ results[i].liability = Baseline(base_params).total_liability

C7_Witness ==
    /\ sens_pc = "returned"
    /\ \E i \in 1 .. Len(results) :
          /\ results[i].parameter = "kurs_usd"
          /\ results[i].value # base_params.kurs_usd
          /\ results[i].change_percent = RZero
          /\ ~RIsZero(results[i].liability)

\* C8: a call that returns gives one result per (parameter, value) pair of
\* the sweep, n1 + ... + nk in all, each with the keys parameter, value,
\* liability and change_percent.
C8_ResultCount ==
    sens_pc = "returned" =>
       /\ Len(results) = SweepCount(sensitivity_params)
       /\ \A i \in 1 .. Len(results) :
             DOMAIN results[i] = {"parameter", "value", "liability", "change_percent"}

C8_Witness ==
    /\ sens_pc = "returned"
    /\ Len(sensitivity_params) = 2
    /\ Len(sensitivity_params[1].values) = 1
    /\ Len(sensitivity_params[2].values) = 2
    /\ Len(results) = 3

\* the baseline liability of the running call is exactly zero
ZeroBaseline ==
    /\ sens_pc # "idle"
    /\ Baseline(base_params).outcome = "returned"
    /\ RIsZero(Baseline(base_params).total_liability)

\* C9: whenever the baseline liability is exactly zero the call signals an
\* error and returns no result list, and no result has an infinite or NaN
\* change_percent.
C9_ZeroBaselineAlwaysRaises ==
    /\ ZeroBaseline => sens_pc # "returned"
    /\ \A i \in 1 .. Len(results) : IsFinite(results[i].change_percent)

\* What the code does with a zero baseline: it raises ZeroDivisionError at
\* the first value of the sweep, and returns only when the sweep holds no
\* value at all, then with the empty list; no result is ever measured
\* against a zero baseline, so no change_percent is infinite or NaN.
ZeroBaselineRaisesAtFirstValue ==
    /\ ZeroBaseline =>
          /\ results = <<>>
          /\ sens_pc = "returned" => SweepCount(sensitivity_params) = 0
          /\ sens_pc = "raised" => sens_error = "ZeroDivisionError"
          /\ SweepCount(sensitivity_params) > 0 => sens_pc # "returned"
    /\ \A i \in 1 .. Len(results) : IsFinite(results[i].change_percent)

---------------------------------------------------------------------------
(* StressTestEngine.run_stress_scenarios                                   *)

\* the scenarios dictionary, as the sequence of its items in insertion order
scenarios ==
    <<[scenario |-> "Skenario Dasar",
       liability_mult |-> Rat(100, 100), asset_mult |-> Rat(100, 100),
       description |-> "Kondisi normal tanpa shock eksternal"],
      [scenario |-> "Resesi Global",
       liability_mult |-> Rat(115, 100), asset_mult |-> Rat(85, 100),
       description |-> "Imbal hasil investasi turun, biaya naik"],
      [scenario |-> "Depresiasi Rupiah Ekstrem",
       liability_mult |-> Rat(145, 100), asset_mult |-> Rat(95, 100),
       description |-> "Rupiah melemah 30% dalam 2 tahun"],
      [scenario |-> "Inflasi Saudi Tinggi",
       liability_mult |-> Rat(125, 100), asset_mult |-> Rat(102, 100),
       description |-> "Inflasi Saudi mencapai 8% per tahun"],
      [scenario |-> "Shock Ganda",
       liability_mult |-> Rat(160, 100), asset_mult |-> Rat(80, 100),
       description |-> "Kombinasi resesi + depresiasi + inflasi"]>>

\* mutant: the thresholds are compared with > instead of >=
status_StrictThresholds(solvency_ratio) ==
    IF RLess(Rat(12, 10), solvency_ratio) THEN "Aman"
    ELSE IF RLess(ROne, solvency_ratio) THEN "Waspada"
    ELSE "Risiko Tinggi"

\* "Aman" if solvency_ratio >= 1.2 else "Waspada" if solvency_ratio >= 1.0
\* else "Risiko Tinggi"
status(solvency_ratio) ==
    IF RLeq(Rat(12, 10), solvency_ratio) THEN "Aman"
    ELSE IF RLeq(ROne, solvency_ratio) THEN "Waspada"
    ELSE "Risiko Tinggi"

\* mutant: solvency_ratio = scenario_liability / scenario_assets
StressResult_InvertedRatio(sc, assets, liability) ==
    LET scenario_liability == RMul(RInt(liability), sc.liability_mult)
        scenario_assets == RMul(RInt(assets), sc.asset_mult)
        solvency_ratio == RDiv(scenario_liability, scenario_assets)
    IN  [scenario |-> sc.scenario,
         description |-> sc.description,
         assets |-> scenario_assets,
         liability |-> scenario_liability,
         solvency_ratio |-> solvency_ratio,
         status |-> status(solvency_ratio)]

\* mutant: each multiplier is applied to the other side of the balance
StressResult_SwappedMults(sc, assets, liability) ==
    LET scenario_liability == RMul(RInt(liability), sc.asset_mult)
        scenario_assets == RMul(RInt(assets), sc.liability_mult)
        solvency_ratio == RDiv(scenario_assets, scenario_liability)
    IN  [scenario |-> sc.scenario,
         description |-> sc.description,
         assets |-> scenario_assets,
         liability |-> scenario_liability,
         solvency_ratio |-> solvency_ratio,
         status |-> status(solvency_ratio)]

\* the dictionary appended to results for the scenario sc
StressResult(sc, assets, liability) ==
    LET scenario_liability == RMul(RInt(liability), sc.liability_mult)
        scenario_assets == RMul(RInt(assets), sc.asset_mult)
        solvency_ratio == RDiv(scenario_assets, scenario_liability)
    IN  [scenario |-> sc.scenario,
         description |-> sc.description,
         assets |-> scenario_assets,
         liability |-> scenario_liability,
         solvency_ratio |-> solvency_ratio,
         status |-> status(solvency_ratio)]

\* mutant: the loop runs over sorted(scenarios.items())
ScenarioAt_Sorted(i) == scenarios[<<3, 4, 2, 5, 1>>[i]]

\* the scenario the loop takes at position i
ScenarioAt(i) == scenarios[i]

\* mutant: the division gives inf or nan instead of raising (the numpy
\* semantics of /)
SolvencyDivisionRaises_Never(scenario_liability) == FALSE

\* scenario_assets / scenario_liability raises ZeroDivisionError
SolvencyDivisionRaises(scenario_liability) == RIsZero(scenario_liability)

MaxAmount == 3

\* amounts in units of 60, so that the ratios 1.0 and 1.2 occur exactly
\* 1805 and 1452 are the amounts 180.5e12 and 145.2e12 of the unit test, in
\* units of 1e11
AssetValues == {60 * k : k \in (-1) .. MaxAmount} \cup {72, 100, 200, 1805}

LiabilityValues == {60 * k : k \in (-1) .. MaxAmount} \cup {50, 100, 1452}

\* lines 82-110: the catalog is built, results = []
StressEnter ==
    /\ stress_pc = "call"
    /\ stress_pc' = "loop"
    /\ stress_results' = <<>>
    /\ stress_i' = 1
    /\ UNCHANGED <<base_assets, base_liability, stress_error, calc_vars, sens_vars, mc_vars, db_vars, ag_vars>>

\* lines 111-126: the loop body for one scenario
StressIter ==
    /\ stress_pc = "loop"
    /\ stress_i <= Len(scenarios)
    /\ IF SolvencyDivisionRaises(
             RMul(RInt(base_liability), ScenarioAt(stress_i).liability_mult))
       THEN /\ stress_pc' = "raised"
            /\ stress_error' = "ZeroDivisionError"
            /\ UNCHANGED <<stress_results, stress_i>>
       ELSE /\ stress_results' =
                   Append(stress_results,
                          StressResult(ScenarioAt(stress_i), base_assets, base_liability))
            /\ stress_i' = stress_i + 1
            /\ UNCHANGED <<stress_pc, stress_error>>
    /\ UNCHANGED <<base_assets, base_liability, calc_vars, sens_vars, mc_vars, db_vars, ag_vars>>

\* line 128: return results
StressReturn ==
    /\ stress_pc = "loop"
    /\ stress_i > Len(scenarios)
    /\ stress_pc' = "returned"
    /\ UNCHANGED <<base_assets, base_liability, stress_error, stress_i, stress_results>>
    /\ UNCHANGED <<calc_vars, sens_vars, mc_vars, db_vars, ag_vars>>

StressInit ==
    /\ base_assets \in AssetValues
    /\ base_liability \in LiabilityValues
    /\ stress_pc = "call"
    /\ stress_error = "none"
    /\ stress_i = 0
    /\ stress_results = <<>>
    /\ CalcIdle
    /\ SensIdle
    /\ McIdle
    /\ DbIdle
    /\ AgIdle

StressNext == StressEnter \/ StressIter \/ StressReturn

SpecStress == StressInit /\ [][StressNext]_vars

---------------------------------------------------------------------------
(* Claims about run_stress_scenarios, checked under SpecStress.            *)

\* C10: for base_liability # 0 the call returns, with exactly 5 results in
\* the catalog order Skenario Dasar, Resesi Global, Depresiasi Rupiah
\* Ekstrem, Inflasi Saudi Tinggi, Shock Ganda.
C10_FiveInCatalogOrder ==
    /\ base_liability # 0 => stress_pc # "raised"
    /\ (stress_pc = "returned" /\ base_liability # 0) =>
          [i \in 1 .. Len(stress_results) |-> stress_results[i].scenario] =
             <<"Skenario Dasar", "Resesi Global", "Depresiasi Rupiah Ekstrem",
               "Inflasi Saudi Tinggi", "Shock Ganda">>

C10_Witness ==
    /\ stress_pc = "returned"
    /\ base_liability # 0
    /\ base_assets > 0
    /\ Len(stress_results) = 5
    /\ stress_results[5].scenario = "Shock Ganda"

\* C11: the Skenario Dasar result has assets = base_assets, liability =
\* base_liability and solvency_ratio = base_assets / base_liability exactly;
\* the ratio is > 1 whenever base_assets > base_liability > 0, and for
\* (180.5e12, 145.2e12) the status is Aman.
C11_BaseScenarioUnshocked ==
    Len(stress_results) >= 1 =>
       LET b == stress_results[1]
       IN  /\ b.scenario = "Skenario Dasar"
           /\ b.assets = RInt(base_assets)
           /\ b.liability = RInt(base_liability)
           /\ b.solvency_ratio = Rat(base_assets, base_liability)
           /\ (base_assets > base_liability /\ base_liability > 0) =>
                 RLess(ROne, b.solvency_ratio)
           /\ (base_assets = 1805 /\ base_liability = 1452) => b.status = "Aman"

C11_Witness ==
    /\ stress_pc = "returned"
    /\ base_assets = 1805
    /\ base_liability = 1452
    /\ stress_results[1].scenario = "Skenario Dasar"
    /\ stress_results[1].solvency_ratio = Rat(1805, 1452)
    /\ stress_results[1].status = "Aman"

C12_BoundaryOneReached ==
    \E i \in 1 .. Len(stress_results) :
       /\ stress_results[i].solvency_ratio = ROne
       /\ stress_results[i].status = "Waspada"

\* C13: a call with base_liability = 0 raises the division error at the
\* first scenario and returns no results; no result ever has an infinite
\* (or NaN) solvency_ratio.
C13_ZeroLiabilityRaises ==
    /\ base_liability = 0 =>
          /\ stress_pc # "returned"
          /\ stress_results = <<>>
    /\ stress_pc = "raised" =>
          /\ stress_error = "ZeroDivisionError"
          /\ base_liability = 0
    /\ \A i \in 1 .. Len(stress_results) : IsFinite(stress_results[i].solvency_ratio)

C13_Witness ==
    /\ stress_pc = "raised"
    /\ stress_error = "ZeroDivisionError"
    /\ base_liability = 0
    /\ base_assets > 0
    /\ stress_results = <<>>

---------------------------------------------------------------------------
(* StressTestEngine.monte_carlo_simulation                                 *)
(*                                                                         *)
(* np.random is one generator shared by the whole process.  It is modelled *)
(* as a full-period congruential generator with 16 states; a standard      *)
(* normal draw is read from a table indexed by the state reached.  numpy   *)
(* array arithmetic does not raise on a division by zero: it gives inf or  *)
(* nan, the rationals with denominator 0.                                  *)

MaxSims == 2

\* the state that follows a draw
RngStep(state) == (5 * state + 3) % 16

\* mutant: seed() leaves the generator where it was
Reseed_Skipped(state, seed) == state

\* mutant: the seed is mixed into the state the generator is in
Reseed_Mixed(state, seed) == (state + seed) % 16

\* np.random.seed(seed): the state depends on the seed alone
Reseed(state, seed) == seed % 16

\* the standard normal deviate drawn on reaching a state (-8 makes a factor
\* negative, the case np.abs is there for)
Deviate(state) ==
    <<0, 1, -1, 2, -2, 0, 1, -1, -3, 1, 0, -1, 2, 3, -8, -1>>[state + 1]

\* the generator state after k draws
RECURSIVE RngAfter(_, _)
RngAfter(state, k) == IF k = 0 THEN state ELSE RngAfter(RngStep(state), k - 1)

\* np.random.normal(loc, scale, size): the array drawn from `state`
NormalDraws(state, loc, scale, size) ==
    [i \in 1 .. size |-> RAdd(loc, RMul(scale, RInt(Deviate(RngAfter(state, i)))))]

\* np.abs(x)
NpAbs(x) == [i \in 1 .. Len(x) |-> [n |-> Abs(x[i].n), d |-> x[i].d]]

IsNaN(x) == x.d = 0 /\ x.n = 0

\* mutant: the last sample is reported twice
simulated_solvency_ExtraSample(args, af, lf) ==
    [i \in 1 .. Len(af) + 1 |->
        LET k == IF i > Len(af) THEN Len(af) ELSE i
        IN  RDiv(RMul(RInt(args.base_assets), af[k]),
                 RMul(RInt(args.base_liability), lf[k]))]

\* (base_assets * asset_factors) / (base_liability * liability_factors)
simulated_solvency(args, af, lf) ==
    [i \in 1 .. Len(af) |->
        RDiv(RMul(RInt(args.base_assets), af[i]),
             RMul(RInt(args.base_liability), lf[i]))]

\* x >= 1.0 elementwise: a comparison with nan is False
NpGeqOne(x) == ~IsNaN(x) /\ RLeq(ROne, x)

RECURSIVE NpSum(_)
NpSum(x) == IF x = <<>> THEN RZero ELSE RAdd(NpSum(SubSeq(x, 1, Len(x) - 1)), x[Len(x)])

\* np.mean(x)
NpMean(x) == RDiv(NpSum(x), RInt(Len(x)))

\* np.std(x) is a function of the samples alone; it is irrational in
\* general and is kept as the term std(x)
NpStd(x) == [op |-> "std", of |-> x]

\* np.min(x) and np.max(x): nan if a sample is nan
NpMin(x) ==
    IF \E i \in 1 .. Len(x) : IsNaN(x[i]) THEN Rat(0, 0)
    ELSE x[CHOOSE i \in 1 .. Len(x) : \A j \in 1 .. Len(x) : ~RLess(x[j], x[i])]

NpMax(x) ==
    IF \E i \in 1 .. Len(x) : IsNaN(x[i]) THEN Rat(0, 0)
    ELSE x[CHOOSE i \in 1 .. Len(x) : \A j \in 1 .. Len(x) : ~RLess(x[i], x[j])]

\* mutant: the fraction is not scaled to a percentage
safe_probability_Fraction(x) ==
    Rat(Cardinality({i \in 1 .. Len(x) : NpGeqOne(x[i])}), Len(x))

\* (simulated_solvency >= 1.0).mean() * 100
safe_probability(x) ==
    RMul(Rat(Cardinality({i \in 1 .. Len(x) : NpGeqOne(x[i])}), Len(x)), RInt(100))

\* lines 144-156: the dictionary built from the two arrays of factors
McResults(args, lf, af) ==
    LET x == simulated_solvency(args, NpAbs(af), NpAbs(lf))
    IN  [solvency_ratios |-> x,
         mean_solvency |-> NpMean(x),
         std_solvency |-> NpStd(x),
         safe_probability |-> safe_probability(x),
         worst_case |-> NpMin(x),
         best_case |-> NpMax(x)]

McArgSpace ==
    [base_assets : {0, 100, 150},
     base_liability : {0, 90, 100},
     n_simulations : 1 .. MaxSims]

\* no call of this thread group is between its first and its last step
NoCallRunning == \A c \in Callers : mc_pc[c] \in {"off", "idle", "returned"}

\* a caller enters monte_carlo_simulation; the result of its previous call
\* is remembered
McCall(c) ==
    /\ mc_pc[c] \in {"idle", "returned"}
    /\ \E args \in McArgSpace : mc_args' = [mc_args EXCEPT ![c] = args]
    /\ mc_prev' = [mc_prev EXCEPT ![c] =
                      IF mc_pc[c] = "returned"
                      THEN [args |-> mc_args[c], results |-> mc_results[c]]
                      ELSE <<>>]
    /\ mc_pc' = [mc_pc EXCEPT ![c] = "seed"]
    /\ liability_factors' = [liability_factors EXCEPT ![c] = <<>>]
    /\ asset_factors' = [asset_factors EXCEPT ![c] = <<>>]
    /\ mc_results' = [mc_results EXCEPT ![c] = <<>>]
    /\ UNCHANGED <<rng_state, calc_vars, sens_vars, stress_vars, db_vars, ag_vars>>

\* line 137: np.random.seed(42)
McSeed(c) ==
    /\ mc_pc[c] = "seed"
    /\ rng_state' = Reseed(rng_state, 42)
    /\ mc_pc' = [mc_pc EXCEPT ![c] = "draw_liability"]
    /\ UNCHANGED <<mc_args, liability_factors, asset_factors, mc_results, mc_prev>>
    /\ UNCHANGED <<calc_vars, sens_vars, stress_vars, db_vars, ag_vars>>

\* line 140: liability_factors = np.random.normal(1.0, 0.15, n_simulations)
McDrawLiability(c) ==
    /\ mc_pc[c] = "draw_liability"
    /\ liability_factors' =
          [liability_factors EXCEPT ![c] =
              NormalDraws(rng_state, ROne, Rat(15, 100), mc_args[c].n_simulations)]
    /\ rng_state' = RngAfter(rng_state, mc_args[c].n_simulations)
    /\ mc_pc' = [mc_pc EXCEPT ![c] = "draw_assets"]
    /\ UNCHANGED <<mc_args, asset_factors, mc_results, mc_prev>>
    /\ UNCHANGED <<calc_vars, sens_vars, stress_vars, db_vars, ag_vars>>

\* line 141: asset_factors = np.random.normal(1.0, 0.10, n_simulations)
McDrawAssets(c) ==
    /\ mc_pc[c] = "draw_assets"
    /\ asset_factors' =
          [asset_factors EXCEPT ![c] =
              NormalDraws(rng_state, ROne, Rat(10, 100), mc_args[c].n_simulations)]
    /\ rng_state' = RngAfter(rng_state, mc_args[c].n_simulations)
    /\ mc_pc' = [mc_pc EXCEPT ![c] = "compute"]
    /\ UNCHANGED <<mc_args, liability_factors, mc_results, mc_prev>>
    /\ UNCHANGED <<calc_vars, sens_vars, stress_vars, db_vars, ag_vars>>

\* lines 144-158: the arrays are combined and the dictionary is returned
McReturn(c) ==
    /\ mc_pc[c] = "compute"
    /\ mc_results' = [mc_results EXCEPT ![c] =
                         McResults(mc_args[c], liability_factors[c], asset_factors[c])]
    /\ mc_pc' = [mc_pc EXCEPT ![c] = "returned"]
    /\ UNCHANGED <<rng_state, mc_args, liability_factors, asset_factors, mc_prev>>
    /\ UNCHANGED <<calc_vars, sens_vars, stress_vars, db_vars, ag_vars>>

\* other code of the process draws from np.random between two calls
\* (components/metrics.py draws without seeding)
OtherCodeDraws ==
    /\ NoCallRunning
    /\ \E c \in Callers : mc_pc[c] # "off"
    /\ rng_state' = RngStep(rng_state)
    /\ UNCHANGED <<mc_pc, mc_args, liability_factors, asset_factors, mc_results, mc_prev>>
    /\ UNCHANGED <<calc_vars, sens_vars, stress_vars, db_vars, ag_vars>>

\* other code of the process seeds np.random between two calls (the
\* investment agent's _monte_carlo_simulation, charts.py: always seed 42)
OtherCodeSeeds ==
    /\ NoCallRunning
    /\ \E c \in Callers : mc_pc[c] # "off"
    /\ rng_state' = Reseed(rng_state, 42)
    /\ UNCHANGED <<mc_pc, mc_args, liability_factors, asset_factors, mc_results, mc_prev>>
    /\ UNCHANGED <<calc_vars, sens_vars, stress_vars, db_vars, ag_vars>>

\* what a call returns when nothing else touches the generator during it
MonteCarloAlone(args) ==
    LET s0 == Reseed(0, 42)
        lf == NormalDraws(s0, ROne, Rat(15, 100), args.n_simulations)
        s1 == RngAfter(s0, args.n_simulations)
        af == NormalDraws(s1, ROne, Rat(10, 100), args.n_simulations)
    IN  McResults(args, lf, af)

McInitWith(threads) ==
    /\ rng_state \in 0 .. 15
    /\ mc_pc = [c \in Callers |-> IF c \in threads THEN "idle" ELSE "off"]
    /\ mc_args = [c \in Callers |-> <<>>]
    /\ liability_factors = [c \in Callers |-> <<>>]
    /\ asset_factors = [c \in Callers |-> <<>>]
    /\ mc_results = [c \in Callers |-> <<>>]
    /\ mc_prev = [c \in Callers |-> <<>>]
    /\ CalcIdle
    /\ SensIdle
    /\ StressIdle
    /\ DbIdle
    /\ AgIdle

\* one thread: calls follow one another, other code may draw in between
McInit == McInitWith({"A"})

McNext ==
    \/ \E c \in Callers : McCall(c)
    \/ \E c \in Callers : McSeed(c)
    \/ \E c \in Callers : McDrawLiability(c)
    \/ \E c \in Callers : McDrawAssets(c)
    \/ \E c \in Callers : McReturn(c)
    \/ OtherCodeDraws
    \/ OtherCodeSeeds

SpecMC == McInit /\ [][McNext]_vars

\* several threads call monte_carlo_simulation, their steps interleaved
McConcInit == McInitWith(Callers)

\* a thread's first call
McFirstCall(c) == mc_pc[c] = "idle" /\ McCall(c)

\* every thread makes one call
McConcNext ==
    \/ \E c \in Callers : McFirstCall(c)
    \/ \E c \in Callers : McSeed(c)
    \/ \E c \in Callers : McDrawLiability(c)
    \/ \E c \in Callers : McDrawAssets(c)
    \/ \E c \in Callers : McReturn(c)

SpecMCConc == McConcInit /\ [][McConcNext]_vars

---------------------------------------------------------------------------
(* Claims about monte_carlo_simulation, checked under SpecMC (one thread)  *)
(* and SpecMCConc (several threads).                                       *)

\* every number of a returned dictionary is finite
AllFinite(res) ==
    /\ \A i \in 1 .. Len(res.solvency_ratios) : IsFinite(res.solvency_ratios[i])
    /\ IsFinite(res.mean_solvency)
    /\ IsFinite(res.worst_case)
    /\ IsFinite(res.best_case)

\* C14: a call with base_liability = 0 signals a division-by-zero error and
\* returns no result; no returned result holds an infinite or NaN number.
C14_ZeroLiabilityRaises ==
    \A c \in Callers :
       mc_pc[c] = "returned" =>
          /\ mc_args[c].base_liability # 0
          /\ AllFinite(mc_results[c])

\* C15: a call that follows a call of the same thread with the same
\* arguments returns the same samples, element for element, and the same
\* mean, std, safe probability, worst case and best case.
C15_SequentialCallsAgree ==
    \A c \in Callers :
       (/\ mc_pc[c] = "returned"
        /\ mc_prev[c] # <<>>
        /\ mc_prev[c].args = mc_args[c]) =>
          mc_prev[c].results = mc_results[c]

C15_Witness ==
    \E c \in Callers :
       /\ mc_pc[c] = "returned"
       /\ mc_prev[c] # <<>>
       /\ mc_prev[c].args = mc_args[c]
       /\ mc_args[c].n_simulations >= 2
       /\ mc_args[c].base_liability # 0
       /\ mc_results[c].solvency_ratios[1] # mc_results[c].solvency_ratios[2]
       /\ mc_prev[c].results.solvency_ratios = mc_results[c].solvency_ratios

\* C16: with the steps of several callers interleaved in any order, every
\* call returns what the same call returns when it runs alone.
C16_ConcurrentCallsAsAlone ==
    \A c \in Callers :
       mc_pc[c] = "returned" => mc_results[c] = MonteCarloAlone(mc_args[c])

\* in one thread every call does return what it returns alone
SequentialCallsAsAlone ==
    \A c \in Callers :
       \/ mc_pc[c] # "returned"
       \/ /\ mc_results[c].solvency_ratios =
                MonteCarloAlone(mc_args[c]).solvency_ratios
          /\ mc_results[c] = MonteCarloAlone(mc_args[c])

\* C17: the solvency_ratios of a returned call has exactly n_simulations
\* elements.
C17_SampleCount ==
    \A c \in Callers :
       mc_pc[c] = "returned" =>
          Len(mc_results[c].solvency_ratios) = mc_args[c].n_simulations

C17_Witness ==
    \E c \in Callers :
       /\ mc_pc[c] = "returned"
       /\ mc_args[c].n_simulations >= 2
       /\ Len(mc_results[c].solvency_ratios) = mc_args[c].n_simulations

\* the number of samples of a result with solvency ratio >= 1.0
SafeCount(res) ==
    Cardinality({i \in 1 .. Len(res.solvency_ratios) :
                    /\ IsFinite(res.solvency_ratios[i])
                    /\ res.solvency_ratios[i].n >= res.solvency_ratios[i].d})

\* C18: safe_probability lies in 0..100, and for base_liability # 0 it is
\* 100 times the fraction of the samples with solvency ratio >= 1.0.
C18_SafeProbability ==
    \A c \in Callers :
       mc_pc[c] = "returned" =>
          LET sp == mc_results[c].safe_probability
          IN  /\ IsFinite(sp)
              /\ RLeq(RZero, sp)
              /\ RLeq(sp, RInt(100))
              /\ mc_args[c].base_liability # 0 =>
                    sp.n * mc_args[c].n_simulations =
                       100 * SafeCount(mc_results[c]) * sp.d

\* half of the samples are safe, one of them exactly at 1.0
C18_Witness ==
    \E c \in Callers :
       /\ mc_pc[c] = "returned"
       /\ mc_args[c].base_liability # 0
       /\ mc_results[c].safe_probability = RInt(50)
       /\ \E i \in 1 .. Len(mc_results[c].solvency_ratios) :
             mc_results[c].solvency_ratios[i] = ROne

---------------------------------------------------------------------------
(* A further claim about calculate_total_liability, under SpecCalc.        *)

\* C19: for total_jemaah > 0, biaya_awal > 0, tahun_proyeksi >= 1,
\* non-negative inflation and depreciation and a positive discount rate,
\* every year's present_value and the total_liability are strictly positive.
C19_PositivePresentValues ==
    ValidParams(params) =>
       /\ \A i \in 1 .. Len(projections) : RLess(RZero, projections[i].present_value)
       /\ calc_pc = "returned" => RLess(RZero, total_liability)

C19_Witness ==
    /\ ValidParams(params)
    /\ params.inflasi_saudi = 0
    /\ params.depresiasi_rupiah = 0
    /\ calc_pc = "returned"
    /\ Len(projections) >= 2
    /\ RLess(RZero, total_liability)

---------------------------------------------------------------------------
(* DatabaseManager (models/database.py): the SQLite file at db_path, its    *)
(* table liability_calculations, insert_liability_calculation and           *)
(* get_liability_history.  calculation_date is the reading of the wall      *)
(* clock at the insert; datetime.now() is naive local time, which passes    *)
(* while a call runs and which the operating system may set back (clock     *)
(* synchronisation, end of daylight saving time).                           *)

MaxRows == 3

\* the clock readings: one tick per row that can be stored
MaxClock == MaxRows

\* the tables _init_database creates
TableNames ==
    {"jemaah_data", "biaya_haji", "liability_calculations",
     "simulation_results", "agent_executions"}

\* arguments of insert_liability_calculation; complete is FALSE when params
\* lacks a key of a NOT NULL column (params.get gives None)
InsertArgs ==
    {[complete |-> c, result |-> v[1], created_by |-> v[2]] :
        c \in BOOLEAN, v \in {<<1452, "test_user">>, <<100, "system">>}}

\* arguments of get_liability_history; a negative LIMIT is no limit in SQLite
LimitValues == {-1, 0, 1, 2, 100}

\* cursor.lastrowid of an INTEGER PRIMARY KEY AUTOINCREMENT table from which
\* nothing is ever deleted
lastrowid(rows) == Len(rows) + 1

Min(a, b) == IF a < b THEN a ELSE b

\* ORDER BY calculation_date DESC: every arrangement of the rows with
\* non-increasing dates (SQL leaves the order of equal dates open)
OrderByDateDesc(rows) ==
    LET n == Len(rows)
        perms == {q \in [1 .. n -> 1 .. n] : \A i, j \in 1 .. n : q[i] = q[j] => i = j}
    IN  {[i \in 1 .. n |-> rows[q[i]]] : q \in
            {q \in perms : \A i \in 1 .. n - 1 :
                rows[q[i]].calculation_date >= rows[q[i + 1]].calculation_date}}

\* LIMIT ?
Limit(rows, limit) ==
    IF limit < 0 THEN rows ELSE SubSeq(rows, 1, Min(limit, Len(rows)))

\* DatabaseManager(db_path): __init__ and _init_database; CREATE TABLE IF NOT
\* EXISTS keeps the rows of an existing file
DbConstruct ==
    /\ db_pc \in {"none", "ready"}
    /\ db_pc' = "ready"
    /\ db_tables' = db_tables \cup TableNames
    /\ db_ret' = [op |-> "init"]
    /\ UNCHANGED <<liability_calculations, clock>>
    /\ UNCHANGED <<calc_vars, sens_vars, stress_vars, mc_vars, ag_vars>>

\* insert_liability_calculation(params, result, created_by): the row gets
\* datetime.now() as calculation_date; a None in a NOT NULL column raises
\* sqlite3.IntegrityError and nothing is stored.  The call takes time.
DbInsert ==
    /\ db_pc = "ready"
    /\ Len(liability_calculations) < MaxRows
    /\ clock < MaxClock
    /\ \E a \in InsertArgs :
          IF a.complete
          THEN /\ liability_calculations' =
                     Append(liability_calculations,
                            [id |-> lastrowid(liability_calculations),
                             calculation_date |-> clock,
                             total_liability |-> a.result,
                             created_by |-> a.created_by])
               /\ db_ret' = [op |-> "insert", id |-> lastrowid(liability_calculations)]
          ELSE /\ UNCHANGED liability_calculations
               /\ db_ret' = [op |-> "insert_raised", error |-> "IntegrityError"]
    /\ clock' = clock + 1
    /\ UNCHANGED <<db_pc, db_tables>>
    /\ UNCHANGED <<calc_vars, sens_vars, stress_vars, mc_vars, ag_vars>>

\* get_liability_history(limit)
DbHistory ==
    /\ db_pc = "ready"
    /\ \E limit \in LimitValues :
       \E sorted \in OrderByDateDesc(liability_calculations) :
          db_ret' = [op |-> "history", limit |-> limit, rows |-> Limit(sorted, limit)]
    /\ UNCHANGED <<db_pc, db_tables, liability_calculations, clock>>
    /\ UNCHANGED <<calc_vars, sens_vars, stress_vars, mc_vars, ag_vars>>

\* time passes between two calls
ClockAdvance ==
    /\ db_pc = "ready"
    /\ clock < MaxClock
    /\ clock' = clock + 1
    /\ UNCHANGED <<db_pc, db_tables, liability_calculations, db_ret>>
    /\ UNCHANGED <<calc_vars, sens_vars, stress_vars, mc_vars, ag_vars>>

\* the wall clock is set back between two calls
ClockSetBack ==
    /\ db_pc = "ready"
    /\ \E earlier \in 0 .. clock - 1 : clock' = earlier
    /\ UNCHANGED <<db_pc, db_tables, liability_calculations, db_ret>>
    /\ UNCHANGED <<calc_vars, sens_vars, stress_vars, mc_vars, ag_vars>>

DbInit ==
    /\ db_pc = "none"
    /\ db_tables = {}
    /\ liability_calculations = <<>>
    /\ clock = 0
    /\ db_ret = [op |-> "none"]
    /\ CalcIdle
    /\ SensIdle
    /\ StressIdle
    /\ McIdle
    /\ AgIdle

DbNext == DbConstruct \/ DbInsert \/ DbHistory \/ ClockAdvance \/ ClockSetBack

SpecDb == DbInit /\ [][DbNext]_vars

---------------------------------------------------------------------------
(* The claim about DatabaseManager, checked under SpecDb.                   *)

\* the rows a history call returns when row i is the i-th newest insert
NewestFirst(rows, limit) ==
    [i \in 1 .. Min(limit, Len(rows)) |-> rows[Len(rows) + 1 - i]]

\* C20: a constructed DatabaseManager holds the five tables, every insert
\* that returned has returned an id > 0, and get_liability_history(limit)
\* returns min(limit, number of inserts) rows, the newest insert first, with
\* the total_liability and created_by that were inserted.
C20_HistoryNewestFirst ==
    /\ db_pc = "ready" => TableNames \subseteq db_tables
    /\ db_ret.op = "insert" => db_ret.id > 0
    /\ (db_ret.op = "history" /\ db_ret.limit >= 0) =>
          LET expected == NewestFirst(liability_calculations, db_ret.limit)
          IN  /\ Len(db_ret.rows) = Len(expected)
              /\ \A i \in 1 .. Len(expected) :
                    /\ db_ret.rows[i].total_liability = expected[i].total_liability
                    /\ db_ret.rows[i].created_by = expected[i].created_by

\* what does hold: the tables exist, ids are positive and count the inserts,
\* and a history holds min(limit, number of rows) stored rows in
\* non-increasing order of calculation_date
HistoryByRecordedDate ==
    /\ db_pc = "ready" => TableNames \subseteq db_tables
    /\ db_ret.op = "insert" => db_ret.id = Len(liability_calculations) /\ db_ret.id > 0
    /\ (db_ret.op = "history" /\ db_ret.limit >= 0) =>
          /\ Len(db_ret.rows) = Min(db_ret.limit, Len(liability_calculations))
          /\ \A i \in 1 .. Len(db_ret.rows) :
                \E k \in 1 .. Len(liability_calculations) :
                   db_ret.rows[i] = liability_calculations[k]
          /\ \A i \in 1 .. Len(db_ret.rows) - 1 :
                db_ret.rows[i].calculation_date >= db_ret.rows[i + 1].calculation_date

\* while the clock has never been set back between two inserts, the history
\* is newest first
DatesIncrease ==
    \A i \in 1 .. Len(liability_calculations) - 1 :
       liability_calculations[i].calculation_date <
          liability_calculations[i + 1].calculation_date

NewestFirstWhileDatesIncrease ==
    (db_ret.op = "history" /\ db_ret.limit >= 0 /\ DatesIncrease) =>
       db_ret.rows = NewestFirst(liability_calculations, db_ret.limit)

\* a history of two inserts made before and after the clock was set back
HistoryAfterSetBack ==
    /\ db_ret.op = "history"
    /\ db_ret.limit = 1
    /\ Len(liability_calculations) = 2
    /\ liability_calculations[2].calculation_date <
          liability_calculations[1].calculation_date
    /\ db_ret.rows = <<liability_calculations[1]>>

---------------------------------------------------------------------------
(* Further claims about calculate_total_liability, under SpecCalc.          *)

\* C21: the t-th entry of projections has tahun 2025 + t: the years start at
\* 2026 and are consecutive and strictly ascending.
C21_YearsConsecutive ==
    /\ \A i \in 1 .. Len(projections) : projections[i].tahun = 2025 + i
    /\ \A i \in 1 .. Len(projections) - 1 :
          projections[i + 1].tahun = projections[i].tahun + 1

C21_Witness ==
    /\ calc_pc = "returned"
    /\ Len(projections) >= 2
    /\ projections[1].tahun = 2026
    /\ projections[2].tahun = 2027

\* the sum of the jemaah fields of a sequence of projection entries
RECURSIVE JemaahSum(_)
JemaahSum(projs) ==
    IF projs = <<>> THEN RZero
    ELSE RAdd(JemaahSum(SubSeq(projs, 1, Len(projs) - 1)), projs[Len(projs)].jemaah)

\* C22: in every entry, jemaah is total_jemaah / tahun_proyeksi,
\* biaya_per_jemaah is biaya_awal * (1 + inflasi/100)^t * (1 + depresiasi/100)^t,
\* total_biaya is biaya_per_jemaah * jemaah, and present_value times
\* (1 + diskonto/100)^t is total_biaya; over a returned projection of at
\* least one year the jemaah fields sum to total_jemaah.
C22_EntryArithmetic ==
    /\ \A i \in 1 .. Len(projections) :
          LET e == projections[i]
          IN  /\ e.jemaah = Rat(params.total_jemaah, params.tahun_proyeksi)
              /\ e.biaya_per_jemaah =
                    RMul(RMul(RInt(params.biaya_awal),
                              RPow(OnePlusPct(params.inflasi_saudi), i)),
                         RPow(OnePlusPct(params.depresiasi_rupiah), i))
              /\ e.total_biaya = RMul(e.biaya_per_jemaah, e.jemaah)
              /\ RMul(e.present_value, RPow(OnePlusPct(params.tingkat_diskonto), i)) =
                    e.total_biaya
    /\ (calc_pc = "returned" /\ params.tahun_proyeksi >= 1) =>
          JemaahSum(projections) = RInt(params.total_jemaah)

\* a projection of two years or more with a fractional number of pilgrims a
\* year and non-zero rates
C22_Witness ==
    /\ calc_pc = "returned"
    /\ Len(projections) >= 2
    /\ projections[1].jemaah.d # 1
    /\ params.inflasi_saudi > 0
    /\ params.depresiasi_rupiah > 0
    /\ params.tingkat_diskonto > 0
    /\ params.biaya_awal > 0

---------------------------------------------------------------------------
(* Further claims about sensitivity_analysis, under SpecSens.               *)

\* the (parameter, value) pairs of a sweep in items() order, then list order
RECURSIVE Flatten(_)
Flatten(sweep) ==
    IF sweep = <<>> THEN <<>>
    ELSE [j \in 1 .. Len(Head(sweep).values) |->
             [name |-> Head(sweep).name, value |-> Head(sweep).values[j]]]
         \o Flatten(Tail(sweep))

\* C23: the i-th result names the i-th (parameter, value) pair of the
\* flattened sweep, and its liability is calculate_total_liability of the
\* base parameters with that one parameter replaced by that value.
C23_OneFactorAtATime ==
    LET flat == Flatten(sensitivity_params)
    IN  /\ Len(results) <= Len(flat)
        /\ \A i \in 1 .. Len(results) :
              LET one == calculate_total_liability(
                            [base_params EXCEPT ![flat[i].name] = flat[i].value])
              IN  /\ results[i].parameter = flat[i].name
                  /\ results[i].value = flat[i].value
                  /\ one.outcome = "returned"
                  /\ results[i].liability = one.total_liability
        /\ sens_pc = "returned" => Len(results) = Len(flat)

\* a returned sweep of two parameters, the second one's results computed
\* from a base that differs from the first one's values
C23_Witness ==
    /\ sens_pc = "returned"
    /\ Len(sensitivity_params) = 2
    /\ Len(results) >= 3
    /\ results[1].parameter # results[Len(results)].parameter
    /\ results[1].liability # results[Len(results)].liability

\* C24: every change_percent is (liability - base_liability) / base_liability
\* * 100 with base_liability the liability of the unmodified base parameters,
\* a tested value equal to the base value gives 0, and no step of the call
\* changes the caller's base_params.
C24_BaselineFrame ==
    /\ [](\A i \in 1 .. Len(results) :
            LET b == calculate_total_liability(base_params)
            IN  /\ b.outcome = "returned"
                /\ ~RIsZero(b.total_liability)
                /\ results[i].change_percent =
                      RMul(RDiv(RSub(results[i].liability, b.total_liability),
                                b.total_liability),
                           RInt(100))
                /\ results[i].value = base_params[results[i].parameter] =>
                      results[i].change_percent = RZero)
    /\ [][base_params' = base_params]_vars

\* a returned sweep with a value equal to the base value and one that is not
C24_Witness ==
    /\ sens_pc = "returned"
    /\ \E i, j \in 1 .. Len(results) :
          /\ results[i].value = base_params[results[i].parameter]
          /\ results[i].change_percent = RZero
          /\ results[j].value # base_params[results[j].parameter]
          /\ results[j].change_percent # RZero

---------------------------------------------------------------------------
(* The copy of sensitivity_analysis in app/main.py: base_liability is       *)
(* computed once, before the loops (its calculate_total_liability is the    *)
(* same text as the one of utils/calculations.py).                          *)

\* main.py lines 289-301: the loops over the (parameter, value) pairs from
\* pair k on, with the baseline already computed
RECURSIVE MainLoop(_, _, _, _, _)
MainLoop(base, flat, k, baseline, res) ==
    IF k > Len(flat)
    THEN [outcome |-> "returned", results |-> res]
    ELSE LET r == calculate_total_liability(Override(base, flat[k].name, flat[k].value))
         IN  IF r.outcome = "raised"
             THEN Raised(r.error)
             ELSE IF PercentChangeRaises(baseline)
             THEN Raised("ZeroDivisionError")
             ELSE MainLoop(base, flat, k + 1, baseline,
                           AppendResult(res, flat[k].name, flat[k].value,
                                        r.total_liability, baseline))

\* main.py lines 283-303
main_sensitivity_analysis(base, sweep) ==
    LET b == calculate_total_liability(base)
    IN  IF b.outcome = "raised"
        THEN Raised(b.error)
        ELSE MainLoop(base, Flatten(sweep), 1, b.total_liability, <<>>)

\* C26: the copy of app/main.py returns the result sequence that the copy of
\* utils/calculations.py returns, and raises where it raises.
C26_CopiesAgree ==
    /\ sens_pc = "returned" =>
          main_sensitivity_analysis(base_params, sensitivity_params) =
             [outcome |-> "returned", results |-> results]
    /\ sens_pc = "raised" =>
          main_sensitivity_analysis(base_params, sensitivity_params) = Raised(sens_error)

\* the two copies do agree on every sweep that has a value to test
CopiesAgreeOnSweepsWithValues ==
    SweepCount(sensitivity_params) > 0 => C26_CopiesAgree

\* a sweep without values on base parameters whose own calculation raises
CopiesDisagreeOnEmptySweep ==
    /\ sens_pc = "returned"
    /\ results = <<>>
    /\ main_sensitivity_analysis(base_params, sensitivity_params) =
          Raised("ZeroDivisionError")

---------------------------------------------------------------------------
(* A further claim about monte_carlo_simulation, under SpecMC.              *)

\* C27: in one thread the samples a call returns are those of the same call
\* in a fresh process, whatever state earlier seedings, draws and calls left
\* the generator in; a call that follows calls with other arguments and
\* draws of other code returns the samples of its own arguments.
C27_HistoryIndependent ==
    \A c \in Callers :
       mc_pc[c] = "returned" =>
          LET alone == MonteCarloAlone(mc_args[c])
          IN  /\ mc_results[c].solvency_ratios = alone.solvency_ratios
              /\ mc_results[c].mean_solvency = alone.mean_solvency
              /\ mc_results[c].safe_probability = alone.safe_probability

\* a call made after a call with another number of simulations, with the
\* generator left away from the seeded state
C27_Witness ==
    \E c \in Callers :
       /\ mc_pc[c] = "returned"
       /\ mc_prev[c] # <<>>
       /\ mc_prev[c].args.n_simulations # mc_args[c].n_simulations
       /\ mc_args[c].base_liability # 0
       /\ rng_state # Reseed(rng_state, 42)

---------------------------------------------------------------------------
(* A further claim about run_stress_scenarios, under SpecStress.            *)

\* C28: for base_assets > 0 and base_liability > 0 every scenario other than
\* Skenario Dasar has a solvency_ratio strictly below Skenario Dasar's, and
\* Shock Ganda has the lowest of the five; so if Skenario Dasar is not Aman
\* no scenario is, and if any scenario is Aman Skenario Dasar is.
C28_ShocksLowerSolvency ==
    (stress_pc = "returned" /\ base_assets > 0 /\ base_liability > 0) =>
       LET r == stress_results
       IN  /\ Len(r) = 5
           /\ r[1].scenario = "Skenario Dasar"
           /\ r[5].scenario = "Shock Ganda"
           /\ \A i \in 2 .. 5 : RLess(r[i].solvency_ratio, r[1].solvency_ratio)
           /\ \A i \in 1 .. 4 : RLess(r[5].solvency_ratio, r[i].solvency_ratio)
           /\ r[1].status # "Aman" => \A i \in 1 .. 5 : r[i].status # "Aman"
           /\ (\E i \in 1 .. 5 : r[i].status = "Aman") => r[1].status = "Aman"

\* Skenario Dasar is Aman and a shocked scenario is not
C28_Witness ==
    /\ stress_pc = "returned"
    /\ base_assets > 0
    /\ base_liability > 0
    /\ stress_results[1].status = "Aman"
    /\ \E i \in 2 .. 5 : stress_results[i].status = "Aman"
    /\ stress_results[5].status = "Risiko Tinggi"

---------------------------------------------------------------------------
(* The agents (app/agents): BaseAgent, the execute methods of                *)
(* DataCollectorAgent, LiabilityAnalystAgent and InvestmentSimulationAgent,  *)
(* and AgentOrchestrator.run_daily_analysis.                                 *)
(*                                                                           *)
(* The three agent modules use Dict, Any and List in the annotations of      *)
(* execute without importing them: an interpreter that evaluates annotations *)
(* when the function is defined raises NameError at import, one that defers  *)
(* them loads the modules.  liability_analyst_agent.py and                   *)
(* investment_simulation_agent.py call datetime.now() without importing      *)
(* datetime; data_collector_agent.py and orchestrator.py import it.          *)

MaxCalls == 2

\* mutant: every agent module imports datetime
ModuleBindsDatetime_All(a) == TRUE

\* the module of the agent binds the global name datetime
ModuleBindsDatetime(a) == a = "data_collector"

\* the dictionary an execute call returned, by its 'status'
AgentReturned(st) == [outcome |-> "returned", status |-> st]

\* execute from the try statement on.  body_ok: the statements before the
\* timestamp is taken raised nothing.  The try block ends with
\* datetime.now(); the except block calls fail_execution and then builds its
\* dictionary with datetime.now() again.
ExecuteOutcome(a, body_ok) ==
    IF body_ok /\ ModuleBindsDatetime(a)
    THEN [status |-> "completed", success |-> TRUE, outcome |-> AgentReturned("success")]
    ELSE [status |-> "failed", success |-> FALSE,
          outcome |-> IF ModuleBindsDatetime(a)
                      THEN AgentReturned("failed")
                      ELSE Raised("NameError")]

\* the agent modules are imported and the three agents constructed
\* (AgentOrchestrator.__init__; BaseAgent.__init__ sets status "idle")
LoadAgents ==
    /\ \A a \in AgentNames : ag_pc[a] = "unloaded"
    /\ IF build = "eager"
       THEN /\ ag_pc' = [a \in AgentNames |-> "import_failed"]
            /\ orch_pc' = "import_failed"
            /\ UNCHANGED ag_status
       ELSE /\ ag_pc' = [a \in AgentNames |-> "ready"]
            /\ ag_status' = [a \in AgentNames |-> "idle"]
            /\ orch_pc' = "idle"
    /\ UNCHANGED <<build, ag_history, ag_calls, ag_last,
                   orch_step, orch_results, orch_executed, orch_history, orch_ret>>
    /\ UNCHANGED <<calc_vars, sens_vars, stress_vars, mc_vars, db_vars>>

\* agent.execute(...) called directly: start_execution
AgentStart(a) ==
    /\ ag_pc[a] = "ready"
    /\ orch_pc # "running"
    /\ ag_calls[a] < MaxCalls
    /\ ag_pc' = [ag_pc EXCEPT ![a] = "running"]
    /\ ag_status' = [ag_status EXCEPT ![a] = "active"]
    /\ ag_calls' = [ag_calls EXCEPT ![a] = @ + 1]
    /\ UNCHANGED <<build, ag_history, ag_last,
                   orch_pc, orch_step, orch_results, orch_executed, orch_history, orch_ret>>
    /\ UNCHANGED <<calc_vars, sens_vars, stress_vars, mc_vars, db_vars>>

\* the rest of execute: the try block and complete_execution, or the except
\* block and fail_execution
AgentFinish(a) ==
    /\ ag_pc[a] = "running"
    /\ \E body_ok \in BOOLEAN :
          LET x == ExecuteOutcome(a, body_ok)
          IN  /\ ag_status' = [ag_status EXCEPT ![a] = x.status]
              /\ ag_history' = [ag_history EXCEPT ![a] = Append(@, x.success)]
              /\ ag_last' = [ag_last EXCEPT ![a] = x.outcome]
    /\ ag_pc' = [ag_pc EXCEPT ![a] = "ready"]
    /\ UNCHANGED <<build, ag_calls,
                   orch_pc, orch_step, orch_results, orch_executed, orch_history, orch_ret>>
    /\ UNCHANGED <<calc_vars, sens_vars, stress_vars, mc_vars, db_vars>>

\* the agents in the order run_daily_analysis executes them (steps 1 to 3)
Workflow == <<"data_collector", "liability_analyst", "investment_simulation">>

\* the key of results under which the step of an agent stores its result
ResultKey(a) ==
    CASE a = "data_collector" -> "data_collection"
      [] a = "liability_analyst" -> "liability_analysis"
      [] a = "investment_simulation" -> "investment_simulation"

\* mutant: the status of the data collection is not looked at
DataCheckRaises_Never(st) == FALSE

\* if data_result.get('status') != 'success': raise Exception(...)
DataCheckRaises(st) == st # "success"

\* what the except block of run_daily_analysis returns
OrchFailed(partial) == [status |-> "failed", partial_results |-> partial]

\* run_daily_analysis is called: results = {}
OrchCall ==
    /\ orch_pc \in {"idle", "returned"}
    /\ \A a \in AgentNames : ag_pc[a] = "ready" /\ ag_calls[a] < MaxCalls
    /\ orch_pc' = "running"
    /\ orch_step' = 1
    /\ orch_results' = <<>>
    /\ orch_executed' = <<>>
    /\ orch_ret' = [status |-> "none"]
    /\ UNCHANGED <<build, ag_pc, ag_status, ag_history, ag_calls, ag_last, orch_history>>
    /\ UNCHANGED <<calc_vars, sens_vars, stress_vars, mc_vars, db_vars>>

\* one step of the workflow: execute_agent runs the whole execute of the
\* step's agent and logs a returned result; an exception (of execute, or the
\* one raised for a failed data collection) ends the call in the except
\* block; step 3 is followed by the summary and the return of 'success'
OrchStep ==
    /\ orch_pc = "running"
    /\ LET a == Workflow[orch_step]
       IN  \E body_ok \in BOOLEAN :
              LET x == ExecuteOutcome(a, body_ok)
                  stored == Append(orch_results,
                                   [key |-> ResultKey(a), status |-> x.outcome.status])
              IN  /\ ag_status' = [ag_status EXCEPT ![a] = x.status]
                  /\ ag_history' = [ag_history EXCEPT ![a] = Append(@, x.success)]
                  /\ ag_calls' = [ag_calls EXCEPT ![a] = @ + 1]
                  /\ ag_last' = [ag_last EXCEPT ![a] = x.outcome]
                  /\ orch_executed' = Append(orch_executed, a)
                  /\ IF x.outcome.outcome = "raised"
                     THEN /\ orch_ret' = OrchFailed(orch_results)
                          /\ orch_pc' = "returned"
                          /\ UNCHANGED <<orch_results, orch_history, orch_step>>
                     ELSE /\ orch_history' =
                                Append(orch_history,
                                       [agent |-> a,
                                        success |-> x.outcome.status = "success"])
                          /\ IF orch_step = 1 /\ DataCheckRaises(x.outcome.status)
                             THEN /\ orch_results' = stored
                                  /\ orch_ret' = OrchFailed(stored)
                                  /\ orch_pc' = "returned"
                                  /\ UNCHANGED orch_step
                             ELSE IF orch_step < Len(Workflow)
                             THEN /\ orch_results' = stored
                                  /\ orch_step' = orch_step + 1
                                  /\ UNCHANGED <<orch_pc, orch_ret>>
                             ELSE /\ orch_results' =
                                        Append(stored, [key |-> "summary", status |-> "none"])
                                  /\ orch_ret' = [status |-> "success",
                                                  results |-> orch_results']
                                  /\ orch_pc' = "returned"
                                  /\ UNCHANGED orch_step
    /\ UNCHANGED <<build, ag_pc>>
    /\ UNCHANGED <<calc_vars, sens_vars, stress_vars, mc_vars, db_vars>>

AgInit ==
    /\ build \in {"eager", "lazy"}
    /\ ag_pc = [a \in AgentNames |-> "unloaded"]
    /\ ag_status = [a \in AgentNames |-> "none"]
    /\ ag_history = [a \in AgentNames |-> <<>>]
    /\ ag_calls = [a \in AgentNames |-> 0]
    /\ ag_last = [a \in AgentNames |-> [outcome |-> "none"]]
    /\ orch_pc = "unloaded"
    /\ orch_step = 0
    /\ orch_results = <<>>
    /\ orch_executed = <<>>
    /\ orch_history = <<>>
    /\ orch_ret = [status |-> "none"]
    /\ CalcIdle
    /\ SensIdle
    /\ StressIdle
    /\ McIdle
    /\ DbIdle

AgNext ==
    \/ LoadAgents
    \/ \E a \in AgentNames : AgentStart(a)
    \/ \E a \in AgentNames : AgentFinish(a)
    \/ OrchCall
    \/ OrchStep

SpecAgents == AgInit /\ [][AgNext]_vars

\* ---------------------------------------------------------------------------
\* The life cycle of an agent
\* ---------------------------------------------------------------------------

\* get_status()['execution_count']
execution_count(a) == Len(ag_history[a])

\* the agents that exist and are not inside execute
AgentsAtRest == {a \in AgentNames : ag_pc[a] = "ready"}

\* C25: every agent starts in status 'idle' with an empty execution history;
\* after any sequence of execute calls its status is 'completed' if the last
\* call returned a result with status 'success' and 'failed' otherwise, no
\* call of execute propagated an exception to its caller, and
\* execution_count equals the number of execute calls made.
C25_AgentLifecycle ==
    \A a \in AgentsAtRest :
        /\ ag_calls[a] = 0 => ag_status[a] = "idle" /\ ag_history[a] = <<>>
        /\ ag_calls[a] > 0 =>
              /\ ag_last[a].outcome = "returned"
              /\ ag_status[a] = IF ag_last[a].status = "success"
                                THEN "completed" ELSE "failed"
              /\ execution_count(a) = ag_calls[a]

\* what remains of C25 when the exception is left aside: the agent is never
\* left 'active', it is 'completed' exactly after a call that returned
\* 'success', and every call is counted
StatusAndCountAfterExecute ==
    \A a \in AgentsAtRest :
        /\ ag_calls[a] = 0 => ag_status[a] = "idle" /\ ag_history[a] = <<>>
        /\ ag_calls[a] > 0 =>
              /\ ag_status[a] \in {"completed", "failed"}
              /\ ag_status[a] = "completed" <=>
                    (ag_last[a].outcome = "returned" /\ ag_last[a].status = "success")
              /\ execution_count(a) = ag_calls[a]
              /\ ag_history[a][Len(ag_history[a])] = (ag_status[a] = "completed")

\* an execute of the liability analyst has propagated NameError
ExecutePropagated ==
    /\ ag_pc["liability_analyst"] = "ready"
    /\ ag_calls["liability_analyst"] = 1
    /\ ag_last["liability_analyst"] = Raised("NameError")
    /\ ag_status["liability_analyst"] = "failed"

\* ---------------------------------------------------------------------------
\* The daily workflow
\* ---------------------------------------------------------------------------

\* done is an initial segment of order
IsPrefixOf(done, order) ==
    /\ Len(done) <= Len(order)
    /\ \A i \in 1..Len(done) : done[i] = order[i]

\* the keys of a results dictionary
ResultKeys(stored) == {stored[i].key : i \in 1..Len(stored)}

\* the data collector of the current or last run has returned a result whose
\* status is not 'success'
DataCollectionNotSuccess ==
    /\ Len(orch_results) >= 1
    /\ orch_results[1].key = "data_collection"
    /\ orch_results[1].status # "success"

\* C29: run_daily_analysis executes the agents in the order data_collector,
\* liability_analyst, investment_simulation; when the data collector's result
\* is not 'success' no other agent is executed and the call returns 'failed'
\* with partial_results holding data_collection only; a call that has ended
\* has returned 'success' or 'failed'.
C29_WorkflowOrder ==
    /\ IsPrefixOf(orch_executed, Workflow)
    /\ orch_pc = "running" => Len(orch_executed) = orch_step - 1
    /\ DataCollectionNotSuccess =>
          /\ orch_pc = "returned"
          /\ orch_executed = <<"data_collector">>
          /\ orch_ret.status = "failed"
          /\ ResultKeys(orch_ret.partial_results) = {"data_collection"}
    /\ orch_pc = "returned" => orch_ret.status \in {"success", "failed"}

\* a run has ended after a data collection that failed
C29_Witness ==
    /\ orch_pc = "returned"
    /\ DataCollectionNotSuccess
    /\ orch_executed = <<"data_collector">>
    /\ ag_status["data_collector"] = "failed"
    /\ ag_calls["liability_analyst"] = 0

\* the steps of the run whose agent returned a result with a status other
\* than 'success'
StepsNotSuccess ==
    {i \in 1..Len(orch_results) :
        orch_results[i].key # "summary" /\ orch_results[i].status # "success"}

=============================================================================
